---- MODULE Spec2Model ----
(***************************************************************************)
(* Model of convert_colmap2mesh.py: the pipeline orchestrator that turns a *)
(* COLMAP sparse reconstruction into a (textured) mesh by driving the      *)
(* OpenMVS tools.  The state is the scene directory on disk, the arguments *)
(* and search path of the current run, and the position of main().         *)
(***************************************************************************)
EXTENDS Integers, Sequences, FiniteSets, TLC

\* ------------------------------------------------------------------ bounds
\* Number of consecutive runs of the script on the same scene directory.
MaxRuns == 3

\* ---------------------------------------------------------- program values
\* required_commands of check_dependencies, in the order of the list.
required_commands ==
    << "colmap", "InterfaceCOLMAP", "DensifyPointCloud",
       "ReconstructMesh", "RefineMesh", "TextureMesh" >>

\* image_extensions of validate_input_structure.
image_extensions == { ".jpg", ".jpeg", ".png", ".JPG", ".JPEG", ".PNG" }

\* required_files of validate_input_structure, in the order of the list.
required_files == << "cameras.bin", "images.bin", "points3D.bin" >>

\* Default of --max_face_area.
DefaultMaxFaceArea == 16

\* The values of --max_face_area, --refine_scales the runs are given.
MaxFaceAreas == { DefaultMaxFaceArea }
RefineScales == { "1" }

\* The arguments of one invocation (parse_args).
Args ==
    [ no_texture : BOOLEAN, skip_if_exists : BOOLEAN, keep_intermediate : BOOLEAN,
      max_face_area : MaxFaceAreas, refine_scales : RefineScales ]

Range(s) == { s[i] : i \in 1..Len(s) }

\* The stages, in the order main() calls them.
Stages == << "Prepare", "Convert", "Densify", "Reconstruct", "Refine", "Texture" >>

\* The files whose existence each step checks after its command.
Artifacts ==
    { "scene.mvs", "scene_dense.mvs", "scene_dense_mesh.ply",
      "scene_dense_mesh_refine.ply", "scene_dense_mesh_refine_texture.ply" }

\* The file a stage's step function tests with os.path.exists.
StageOutput(stage) ==
    CASE stage = "Convert"     -> "scene.mvs"
      [] stage = "Densify"     -> "scene_dense.mvs"
      [] stage = "Reconstruct" -> "scene_dense_mesh.ply"
      [] stage = "Refine"      -> "scene_dense_mesh_refine.ply"
      [] stage = "Texture"     -> "scene_dense_mesh_refine_texture.ply"

\* The command line (cmd) each step function builds.
StageCmd(stage, a) ==
    CASE stage = "Convert" ->
           << "InterfaceCOLMAP", "-i", "dense", "-o", "scene.mvs",
              "--image-folder", "dense/images" >>
      [] stage = "Densify" -> << "DensifyPointCloud", "scene.mvs" >>
      [] stage = "Reconstruct" ->
           << "ReconstructMesh", "scene_dense.mvs", "-p", "scene_dense.ply" >>
      [] stage = "Refine" ->
           << "RefineMesh", "scene_dense.mvs", "-m", "scene_dense_mesh.ply",
              "-o", "scene_dense_mesh_refine.mvs", "--scales", a.refine_scales,
              "--max-face-area", ToString(a.max_face_area) >>
      [] stage = "Texture" ->
           << "TextureMesh", "scene_dense.mvs", "-m", "scene_dense_mesh_refine.ply",
              "-o", "scene_dense_mesh_refine_texture.mvs" >>

\* The message a step function prints before sys.exit(1).
StageErrorMessage(stage) ==
    CASE stage = "Convert"     -> "Error: COLMAP to MVS conversion failed"
      [] stage = "Densify"     -> "Error: Point cloud densification failed"
      [] stage = "Reconstruct" -> "Error: Mesh reconstruction failed"
      [] stage = "Refine"      -> "Error: Mesh refinement failed"
      [] stage = "Texture"     -> "Error: Mesh texturing failed"

\* The combined stdout/stderr a stage's command produces (an opaque token).
Captured(stage) == "output of " \o stage

\* ------------------------------------------------------------------ cameras
\* A camera of the reconstruction: model name, size, parameter list.
Camera(m, w, h, p) == [ model |-> m, width |-> w, height |-> h, params |-> p ]

\* The cameras a scene's sparse/cameras.bin may hold.
Cameras ==
    { Camera("PINHOLE", 640, 480, << 700, 705, 310, 245 >>),
      Camera("SIMPLE_RADIAL", 640, 480, << 800, 320, 240, 1 >>),
      Camera("OPENCV", 640, 480, << 700, 705, 310, 245, 1, 2, 0, 0 >>),
      Camera("FOV", 1000, 500, << 900, 910, 480, 260, 1 >>) }

\* The cameras of the scenes the runs are started on: one of a known model and
\* one of a model convert_cameras_to_pinhole does not know.
SceneCameras == { c \in Cameras : c.model \in { "SIMPLE_RADIAL", "FOV" } }

Max(a, b) == IF a >= b THEN a ELSE b

Min(a, b) == IF a <= b THEN a ELSE b

\* The model names of the first branch of convert_cameras_to_pinhole (f, cx, cy).
SimpleBranchModels == { "SIMPLE_PINHOLE", "SIMPLE_RADIAL", "SIMPLE_RADIAL_FISHEYE" }

\* The model names of its second branch (fx, fy, cx, cy).
FullBranchModels ==
    { "PINHOLE", "RADIAL", "RADIAL_FISHEYE", "OPENCV", "OPENCV_FISHEYE", "FULL_OPENCV" }

\* A second branch that uses fx for both focal lengths.
PinholeOfSharedFocal(camera) ==
    IF camera.model = "PINHOLE" THEN camera
    ELSE IF camera.model \in SimpleBranchModels
    THEN Camera("PINHOLE", camera.width, camera.height,
                << camera.params[1], camera.params[1], camera.params[2], camera.params[3] >>)
    ELSE IF camera.model \in FullBranchModels
    THEN Camera("PINHOLE", camera.width, camera.height,
                << camera.params[1], camera.params[1], camera.params[3], camera.params[4] >>)
    ELSE Camera("PINHOLE", camera.width, camera.height,
                << Max(camera.width, camera.height), Max(camera.width, camera.height),
                   camera.width \div 2, camera.height \div 2 >>)

\* A fallback that takes the smaller side of the image as focal length.
PinholeOfSmallerSide(camera) ==
    IF camera.model = "PINHOLE" THEN camera
    ELSE IF camera.model \in SimpleBranchModels
    THEN Camera("PINHOLE", camera.width, camera.height,
                << camera.params[1], camera.params[1], camera.params[2], camera.params[3] >>)
    ELSE IF camera.model \in FullBranchModels
    THEN Camera("PINHOLE", camera.width, camera.height,
                << camera.params[1], camera.params[2], camera.params[3], camera.params[4] >>)
    ELSE Camera("PINHOLE", camera.width, camera.height,
                << Min(camera.width, camera.height), Min(camera.width, camera.height),
                   camera.width \div 2, camera.height \div 2 >>)

\* The loop body of convert_cameras_to_pinhole, for one camera.  The sizes in
\* Cameras are even, so width / 2.0 is the integer width \div 2.
PinholeOf(camera) ==
    IF camera.model # "PINHOLE"
    THEN LET width == camera.width
             height == camera.height
             params == camera.params
         IN IF camera.model \in { "SIMPLE_PINHOLE", "SIMPLE_RADIAL", "SIMPLE_RADIAL_FISHEYE" }
            THEN Camera("PINHOLE", width, height,
                        << params[1], params[1], params[2], params[3] >>)
            ELSE IF camera.model \in { "PINHOLE", "RADIAL", "RADIAL_FISHEYE", "OPENCV",
                                       "OPENCV_FISHEYE", "FULL_OPENCV" }
            THEN Camera("PINHOLE", width, height,
                        << params[1], params[2], params[3], params[4] >>)
            ELSE Camera("PINHOLE", width, height,
                        << Max(width, height), Max(width, height),
                           width \div 2, height \div 2 >>)
    ELSE camera

\* The warning convert_cameras_to_pinhole prints in its else branch.
UnknownModelWarning(camera) ==
    "Warning: Unknown camera model " \o camera.model \o ", using fallback intrinsics"

\* What convert_cameras_to_pinhole prints about a camera it falls back on.
CameraWarnings(camera) ==
    IF /\ camera.model # "PINHOLE"
       /\ camera.model \notin SimpleBranchModels
       /\ camera.model \notin FullBranchModels
    THEN { UnknownModelWarning(camera) }
    ELSE {}

\* The camera models of pycolmap and the number of parameters of each; the
\* list starts with f, cx, cy for the models with one focal length and with
\* fx, fy, cx, cy for those with two, and goes on with the distortion terms.
ColmapModels ==
    { "SIMPLE_PINHOLE", "PINHOLE", "SIMPLE_RADIAL", "RADIAL", "OPENCV", "OPENCV_FISHEYE",
      "FULL_OPENCV", "FOV", "SIMPLE_RADIAL_FISHEYE", "RADIAL_FISHEYE",
      "THIN_PRISM_FISHEYE" }

FocalLengths(model) ==
    IF model \in { "SIMPLE_PINHOLE", "SIMPLE_RADIAL", "RADIAL", "SIMPLE_RADIAL_FISHEYE",
                   "RADIAL_FISHEYE" }
    THEN 1 ELSE 2

ParamCount(model) ==
    CASE model = "SIMPLE_PINHOLE" -> 3
      [] model \in { "PINHOLE", "SIMPLE_RADIAL", "SIMPLE_RADIAL_FISHEYE" } -> 4
      [] model \in { "RADIAL", "RADIAL_FISHEYE", "FOV" } -> 5
      [] model \in { "OPENCV", "OPENCV_FISHEYE" } -> 8
      [] model \in { "FULL_OPENCV", "THIN_PRISM_FISHEYE" } -> 12

\* The cameras convert_cameras_to_pinhole is applied to: every model, three
\* image sizes, two focal lengths, two values of the distortion terms.
CameraInputs ==
    { Camera(m, size[1], size[2],
             [ i \in 1..ParamCount(m) |->
                 IF FocalLengths(m) = 1
                 THEN (CASE i = 1 -> f [] i = 2 -> 320 [] i = 3 -> 240 [] OTHER -> d)
                 ELSE (CASE i = 1 -> f [] i = 2 -> f + 5 [] i = 3 -> 310 [] i = 4 -> 245
                         [] OTHER -> d) ]) :
        m \in ColmapModels,
        size \in { << 640, 480 >>, << 480, 640 >>, << 1000, 500 >> },
        f \in { 700, 800 },
        d \in { 1, 7 } }

\* ------------------------------------------------------------------ the disk
\* File names that scene_dir/images may hold.
ImageNames == { "a.jpg", "b.Png", "c.JPG", "notes.txt" }

\* The suffix of a file name, as glob("*" + ext) sees it.
Suffix(name) ==
    CASE name = "a.jpg"     -> ".jpg"
      [] name = "b.Png"     -> ".Png"
      [] name = "c.JPG"     -> ".JPG"
      [] name = "notes.txt" -> ".txt"

\* A camera value standing for "no reconstruction here".
NoCamera == Camera("", 0, 0, << >>)

NoArtifacts == [ f \in Artifacts |-> "absent" ]

NoProgress ==
    [ exists |-> FALSE, completed |-> FALSE, max_face_area |-> 0,
      refine_scales |-> "", textured |-> FALSE ]

\* scene_dir/dense: absent, or a directory holding images (nothing, a link to
\* ../images, or a real directory), sparse (nothing or a reconstruction) and
\* possibly some other file.
NoDense == [ exists |-> FALSE, images |-> "absent", sparse |-> NoCamera, other |-> FALSE ]

\* scene_dir/mesh/mvs: absent, or a directory holding the stage artifacts
\* ("old": left by an earlier run, "new": written by the current run) and
\* progress.json.
NoMvs == [ exists |-> FALSE, art |-> NoArtifacts, progress |-> NoProgress ]

\* ------------------------------------------------------------------- state
VARIABLES
    fs,              \* the scene directory: images, sparse, dense, mvs
    fs0,             \* fs as it was when the current run started
    run,             \* number of runs started so far
    args,            \* the arguments of the current run
    path,            \* the commands shutil.which resolved in the current run
    pc,              \* position of main(): the call it makes next
    exit_status,     \* exit status of the run (-1 while it is running)
    err,             \* the failure the run ended with
    executed,        \* the stages the run has started, in order
    invoked,         \* the command lines run_command has run, in order
    printed,         \* captured outputs and error messages printed so far
    final_mesh,      \* the path main() tests before validation
    final_output,    \* the path main() reports as "Final mesh"
    progress_writes, \* number of times the run has written progress.json
    cleaned,         \* the run has removed scene_dir/dense
    skipped,         \* the run returned at "Output already exists"
    completed_for,   \* texture settings of successful runs still in effect
    checked,         \* the checks validate_input_structure has evaluated, in order
    seen,            \* dense/ as each command run_command has run found it, in order
    other            \* a second invocation of the script, while it is not the one stepping

vars ==
    << fs, fs0, run, args, path, pc, exit_status, err, executed, invoked, printed,
       final_mesh, final_output, progress_writes, cleaned, skipped, completed_for,
       checked, seen, other >>

\* No second invocation.
NoOther == [ pc |-> "none" ]

NoErr ==
    [ kind |-> "none", stage |-> "none", message |-> "", cmd |-> << >>,
      output |-> "", missing |-> << >> ]

\* The scenes a run may be started on: valid ones, and ones that fail a check
\* of validate_input_structure or cannot be loaded by pycolmap.
ValidImages == { [ exists |-> TRUE, files |-> ImageNames ] }

InvalidImages ==
    { [ exists |-> FALSE, files |-> {} ], [ exists |-> TRUE, files |-> {} ],
      [ exists |-> TRUE, files |-> { "b.Png" } ],
      [ exists |-> TRUE, files |-> { "notes.txt" } ] }

Sparse(e, F, r, c) == [ exists |-> e, files |-> F, readable |-> r, cam |-> c ]

ValidSparse == { Sparse(TRUE, Range(required_files), TRUE, c) : c \in SceneCameras }

InvalidSparse ==
    { Sparse(FALSE, {}, FALSE, NoCamera),
      Sparse(TRUE, { "cameras.bin", "images.bin" }, TRUE,
             Camera("PINHOLE", 640, 480, << 700, 705, 310, 245 >>)),
      Sparse(TRUE, Range(required_files), FALSE, NoCamera),
      Sparse(TRUE, {}, FALSE, NoCamera),
      Sparse(TRUE, { "images.bin" }, FALSE, NoCamera),
      Sparse(TRUE, { "cameras.bin", "points3D.bin" }, TRUE,
             Camera("PINHOLE", 640, 480, << 700, 705, 310, 245 >>)) }

\* What scene_dir/dense may hold before the first run.
InitialDense ==
    { NoDense, [ exists |-> TRUE, images |-> "dir", sparse |-> NoCamera, other |-> TRUE ] }

Scenes ==
    { [ images |-> i, sparse |-> s, dense |-> d, mvs |-> NoMvs ] :
        i \in ValidImages, s \in ValidSparse, d \in InitialDense }
    \cup
    { [ images |-> i, sparse |-> s, dense |-> NoDense, mvs |-> NoMvs ] :
        i \in InvalidImages, s \in ValidSparse \cup InvalidSparse }
    \cup
    { [ images |-> i, sparse |-> s, dense |-> NoDense, mvs |-> NoMvs ] :
        i \in ValidImages, s \in InvalidSparse }
    \cup
    { [ images |-> [ exists |-> TRUE, files |-> { "c.JPG" } ], sparse |-> s,
        dense |-> NoDense, mvs |-> NoMvs ] : s \in ValidSparse }

Init ==
    /\ fs \in Scenes
    /\ fs0 = fs
    /\ run = 0
    /\ args = [ no_texture |-> FALSE, skip_if_exists |-> FALSE, keep_intermediate |-> FALSE,
                max_face_area |-> DefaultMaxFaceArea, refine_scales |-> "1" ]
    /\ path = {}
    /\ pc = "exited"
    /\ exit_status = 0
    /\ err = NoErr
    /\ executed = << >>
    /\ invoked = << >>
    /\ printed = {}
    /\ final_mesh = "none"
    /\ final_output = "none"
    /\ progress_writes = 0
    /\ cleaned = FALSE
    /\ skipped = FALSE
    /\ completed_for = {}
    /\ checked = << >>
    /\ seen = << >>
    /\ other = NoOther

\* ------------------------------------------------------- the code's helpers
\* A check that stops at the first command it does not find.
FirstMissingOnly(p) ==
    LET all == SelectSeq(required_commands, LAMBDA cmd : cmd \notin p)
    IN IF Len(all) > 0 THEN << Head(all) >> ELSE << >>

\* A check that does not ask for colmap, which no stage runs.
MissingWithoutColmap(p) == SelectSeq(Tail(required_commands), LAMBDA cmd : cmd \notin p)

\* check_dependencies: the commands shutil.which does not find, in list order.
MissingCommands(p) == SelectSeq(required_commands, LAMBDA cmd : cmd \notin p)

\* main: the path tested by the "Check if output already exists" block.
FinalMesh(a) ==
    IF ~a.no_texture THEN "scene_dense_mesh_refine_texture.ply"
    ELSE "scene_dense_mesh_refine.ply"

\* os.path.exists / Path.exists of a file of scene_dir/mesh/mvs.
Exists(f, file) == f.mvs.exists /\ f.mvs.art[file] # "absent"

\* main: the condition under which it returns before validating.
OutputAlreadyExists(a, f) == a.skip_if_exists /\ Exists(f, FinalMesh(a))

\* validate_input_structure: the files of images/ that one of the globs matches.
ImageFiles(f) == { n \in f.images.files : Suffix(n) \in image_extensions }

\* validate_input_structure: its checks, in the order of the function body.
Checks == << "images", "image files", "sparse" >> \o required_files

\* validate_input_structure: the condition each check tests.
CheckPasses(check, f) ==
    CASE check = "images"      -> f.images.exists
      [] check = "image files" -> Cardinality(ImageFiles(f)) # 0
      [] check = "sparse"      -> f.sparse.exists
      [] OTHER                 -> check \in f.sparse.files

\* A validation that goes through all its checks before it reports.
AllChecksEvaluated(f) == Checks

\* validate_input_structure: the checks it evaluates: sys.exit(1) ends the
\* function at the first one that fails.
ChecksEvaluated(f) ==
    LET failing == { i \in 1..Len(Checks) : ~CheckPasses(Checks[i], f) }
    IN IF failing = {} THEN Checks
       ELSE SubSeq(Checks, 1, CHOOSE i \in failing : \A j \in failing : i <= j)

\* validate_input_structure: the first check that fails, "" when none does.
FirstUnmet(f) ==
    IF ~f.images.exists THEN "images"
    ELSE IF Cardinality(ImageFiles(f)) = 0 THEN "image files"
    ELSE IF ~f.sparse.exists THEN "sparse"
    ELSE LET absent == SelectSeq(required_files, LAMBDA file : file \notin f.sparse.files)
         IN IF Len(absent) > 0 THEN Head(absent) ELSE ""

\* step_undistort_images up to the symlink: dense/ is created if needed, whatever
\* dense/images was (a link or a real directory) is removed, and dense/images
\* becomes a link to scene_dir/images.
LinkImages(f) == [ f EXCEPT !.dense.exists = TRUE, !.dense.images = "symlink" ]

\* convert_cameras_to_pinhole: the reconstruction with its camera rewritten is
\* written to dense/sparse; sparse/ itself is only read.
WritePinhole(f) == [ f EXCEPT !.dense.sparse = PinholeOf(f.sparse.cam) ]

\* os.makedirs(mvs_dir, exist_ok=True) of step_interface_colmap.
MakeMvsDir(f) == [ f EXCEPT !.mvs.exists = TRUE ]

\* The effect of a stage's command on disk: it wrote its output file or not.
CommandEffect(f, stage, wrote) ==
    IF wrote THEN [ f EXCEPT !.mvs.art[StageOutput(stage)] = "new" ] ELSE f

\* create_progress_file: the record dumped to progress.json.
ProgressRecord(a) ==
    [ exists |-> TRUE, completed |-> TRUE, max_face_area |-> a.max_face_area,
      refine_scales |-> a.refine_scales, textured |-> ~a.no_texture ]

\* A removal that follows the dense/images link and empties scene_dir/images.
RemoveDenseFollowingLink(f) ==
    [ f EXCEPT !.dense = NoDense,
               !.images.files = IF f.dense.images = "symlink" THEN {} ELSE @ ]

\* shutil.rmtree(dense_dir): the directory goes with what it holds; a link in it
\* is unlinked, the directory it points to is not entered.
RemoveDense(f) == [ f EXCEPT !.dense = NoDense ]

\* A cleanup that does not look at --keep_intermediate.
RemovesDenseAlways(f, keep_intermediate) == f.dense.exists

\* cleanup_intermediate_files: whether the run removes dense/.
RemovesDense(f, keep_intermediate) == ~keep_intermediate /\ f.dense.exists

\* A main() that calls step_texture_mesh whatever --no_texture says.
CallsTextureAlways(a) == TRUE

\* main: whether step_texture_mesh is called.
CallsTexture(a) == ~a.no_texture

\* The stages a run with arguments a goes through when none fails: the fixed
\* order, without Texture when texturing is disabled.
Chain(a) == IF a.no_texture THEN SubSeq(Stages, 1, Len(Stages) - 1) ELSE Stages

\* A run starts: the artifacts on disk are now those of an earlier run.
Aged(f) ==
    [ f EXCEPT !.mvs.art = [ x \in Artifacts |-> IF @[x] = "new" THEN "old" ELSE @[x] ] ]

\* ------------------------------------------------------------------ actions
\* A failure path that prints its error and returns from main() (status 0).
FailsWithStatusZero(e) ==
    /\ pc' = "exited"
    /\ exit_status' = 0
    /\ err' = e

\* The run ends with a failure: status 1 (sys.exit(1) or an uncaught exception).
Fails(e) ==
    /\ pc' = "exited"
    /\ exit_status' = 1
    /\ err' = e

\* The run goes on to the next call of main().
Continues(next) ==
    /\ pc' = next
    /\ UNCHANGED << exit_status, err >>

\* The script is invoked (parse_args and the banner of main): a new run, on the
\* disk the earlier runs left, with its own arguments.
main_start ==
    /\ pc = "exited"
    /\ run < MaxRuns
    /\ run' = run + 1
    /\ args' \in Args
    /\ path' = {}
    /\ fs' = Aged(fs)
    /\ fs0' = Aged(fs)
    /\ pc' = "check_dependencies"
    /\ exit_status' = -1
    /\ err' = NoErr
    /\ executed' = << >>
    /\ invoked' = << >>
    /\ printed' = {}
    /\ final_mesh' = "none"
    /\ final_output' = "none"
    /\ progress_writes' = 0
    /\ cleaned' = FALSE
    /\ skipped' = FALSE
    /\ checked' = << >>
    /\ seen' = << >>
    /\ UNCHANGED other
    /\ completed_for' =
         IF run = 0 THEN {}
         ELSE IF skipped THEN completed_for
         ELSE IF exit_status = 0 THEN { args.no_texture }
         ELSE {}

\* check_dependencies(): shutil.which looks every required command up on the
\* search path of the process; sys.exit(1) after listing every missing one.
check_dependencies ==
    /\ pc = "check_dependencies"
    /\ path' \in SUBSET Range(required_commands)
    /\ LET missing == MissingCommands(path')
       IN IF Len(missing) > 0
          THEN Fails([ NoErr EXCEPT !.kind = "DependencyError", !.missing = missing ])
          ELSE Continues("resume_gate")
    /\ UNCHANGED << fs, fs0, run, args, executed, invoked, printed, final_mesh,
                    final_output, progress_writes, cleaned, skipped, completed_for, checked, seen, other >>

\* main(), "Setup paths" and "Check if output already exists": return (status
\* 0) when --skip_if_exists is given and the final mesh is there.
resume_gate ==
    /\ pc = "resume_gate"
    /\ final_mesh' = FinalMesh(args)
    /\ IF OutputAlreadyExists(args, fs)
       THEN /\ pc' = "exited"
            /\ exit_status' = 0
            /\ skipped' = TRUE
            /\ UNCHANGED err
       ELSE /\ Continues("validate_input_structure")
            /\ UNCHANGED skipped
    /\ UNCHANGED << fs, fs0, run, args, path, executed, invoked, printed,
                    final_output, progress_writes, cleaned, completed_for, checked, seen, other >>

\* validate_input_structure(): sys.exit(1) at the first check that fails.
validate_input_structure ==
    /\ pc = "validate_input_structure"
    /\ LET unmet == FirstUnmet(fs)
       IN IF unmet # ""
          THEN Fails([ NoErr EXCEPT !.kind = "ValidationError", !.message = unmet ])
          ELSE Continues("step_undistort_images")
    /\ checked' = ChecksEvaluated(fs)
    /\ UNCHANGED << fs, fs0, run, args, path, executed, invoked, printed, final_mesh,
                    final_output, progress_writes, cleaned, skipped, completed_for, seen, other >>

\* step_undistort_images(): link the images, write the PINHOLE reconstruction.
\* pycolmap.Reconstruction raises on a sparse/ it cannot read; nothing catches it.
step_undistort_images ==
    /\ pc = "step_undistort_images"
    /\ executed' = Append(executed, "Prepare")
    /\ IF fs.sparse.readable
       THEN /\ fs' = WritePinhole(LinkImages(fs))
            /\ printed' = printed \cup CameraWarnings(fs.sparse.cam)
            /\ Continues("step_interface_colmap")
       ELSE /\ fs' = LinkImages(fs)
            /\ UNCHANGED printed
            /\ Fails([ NoErr EXCEPT !.kind = "ReconstructionError" ])
    /\ UNCHANGED << fs0, run, args, path, invoked, final_mesh,
                    final_output, progress_writes, cleaned, skipped, completed_for, checked, seen, other >>

\* A step function that does not test its output file.
RunStageUnchecked(stage, f, next) ==
    \E rc \in { 0, 1 }, wrote \in BOOLEAN :
        /\ executed' = Append(executed, stage)
        /\ invoked' = Append(invoked, StageCmd(stage, args))
        /\ seen' = Append(seen, f.dense)
        /\ fs' = CommandEffect(f, stage, wrote)
        /\ IF rc # 0
           THEN /\ Fails([ NoErr EXCEPT !.kind = "CalledProcessError",
                                        !.cmd = StageCmd(stage, args),
                                        !.output = Captured(stage) ])
                /\ UNCHANGED printed
           ELSE /\ Continues(next)
                /\ printed' = printed \cup { Captured(stage) }

\* A run_command that runs the command a second time when it returns non-zero.
RunStageRetry(stage, f, next) ==
    \E rc \in { 0, 1 }, rc2 \in { 0, 1 }, wrote \in BOOLEAN :
        /\ executed' = Append(executed, stage)
        /\ invoked' = IF rc # 0
                      THEN invoked \o << StageCmd(stage, args), StageCmd(stage, args) >>
                      ELSE Append(invoked, StageCmd(stage, args))
        /\ seen' = Append(seen, f.dense)
        /\ fs' = CommandEffect(f, stage, wrote)
        /\ IF rc # 0 /\ rc2 # 0
           THEN /\ Fails([ NoErr EXCEPT !.kind = "CalledProcessError",
                                        !.cmd = StageCmd(stage, args),
                                        !.output = Captured(stage) ])
                /\ UNCHANGED printed
           ELSE IF ~Exists(fs', StageOutput(stage))
           THEN /\ Fails([ NoErr EXCEPT !.kind = "StageError", !.stage = stage,
                                        !.message = StageErrorMessage(stage) ])
                /\ printed' = printed \cup { Captured(stage), StageErrorMessage(stage) }
           ELSE /\ Continues(next)
                /\ printed' = printed \cup { Captured(stage) }

\* run_command() followed by the step function's check of its output file.  The
\* command exits with status rc and has or has not written the file.  With
\* check=True a non-zero rc raises CalledProcessError out of run_command, past
\* the step function and main(): the captured output is a field of the
\* exception and is not printed.  Otherwise the output is printed and the step
\* function exits with its own message if the file is not there.
RunStage(stage, f, next) ==
    \E rc \in { 0, 1 }, wrote \in BOOLEAN :
        /\ executed' = Append(executed, stage)
        /\ invoked' = Append(invoked, StageCmd(stage, args))
        /\ seen' = Append(seen, f.dense)
        /\ fs' = CommandEffect(f, stage, wrote)
        /\ IF rc # 0
           THEN /\ Fails([ NoErr EXCEPT !.kind = "CalledProcessError",
                                        !.cmd = StageCmd(stage, args),
                                        !.output = Captured(stage) ])
                /\ UNCHANGED printed
           ELSE IF ~Exists(fs', StageOutput(stage))
           THEN /\ Fails([ NoErr EXCEPT !.kind = "StageError", !.stage = stage,
                                        !.message = StageErrorMessage(stage) ])
                /\ printed' = printed \cup { Captured(stage), StageErrorMessage(stage) }
           ELSE /\ Continues(next)
                /\ printed' = printed \cup { Captured(stage) }

\* step_interface_colmap(): InterfaceCOLMAP, then scene.mvs must exist.
step_interface_colmap ==
    /\ pc = "step_interface_colmap"
    /\ RunStage("Convert", MakeMvsDir(fs), "step_densify_point_cloud")
    /\ UNCHANGED << fs0, run, args, path, final_mesh, final_output, progress_writes,
                    cleaned, skipped, completed_for, checked, other >>

\* step_densify_point_cloud(): DensifyPointCloud, then scene_dense.mvs must exist.
step_densify_point_cloud ==
    /\ pc = "step_densify_point_cloud"
    /\ RunStage("Densify", fs, "step_reconstruct_mesh")
    /\ UNCHANGED << fs0, run, args, path, final_mesh, final_output, progress_writes,
                    cleaned, skipped, completed_for, checked, other >>

\* step_reconstruct_mesh(): ReconstructMesh, then scene_dense_mesh.ply must exist.
step_reconstruct_mesh ==
    /\ pc = "step_reconstruct_mesh"
    /\ RunStage("Reconstruct", fs, "step_refine_mesh")
    /\ UNCHANGED << fs0, run, args, path, final_mesh, final_output, progress_writes,
                    cleaned, skipped, completed_for, checked, other >>

\* step_refine_mesh(): RefineMesh, then scene_dense_mesh_refine.ply must exist.
step_refine_mesh ==
    /\ pc = "step_refine_mesh"
    /\ RunStage("Refine", fs, "texture_or_not")
    /\ UNCHANGED << fs0, run, args, path, final_mesh, final_output, progress_writes,
                    cleaned, skipped, completed_for, checked, other >>

\* main(), "if not args.no_texture": step_texture_mesh(), whose result is the
\* final output.
step_texture_mesh ==
    /\ pc = "texture_or_not"
    /\ CallsTexture(args)
    /\ RunStage("Texture", fs, "create_progress_file")
    /\ final_output' =
         IF pc' = "create_progress_file" THEN StageOutput("Texture") ELSE final_output
    /\ UNCHANGED << fs0, run, args, path, final_mesh, progress_writes,
                    cleaned, skipped, completed_for, checked, other >>

\* main(), the else branch: the refined mesh is the final output.
skip_texture ==
    /\ pc = "texture_or_not"
    /\ ~CallsTexture(args)
    /\ final_output' = StageOutput("Refine")
    /\ Continues("create_progress_file")
    /\ UNCHANGED << fs, fs0, run, args, path, executed, invoked, printed, final_mesh,
                    progress_writes, cleaned, skipped, completed_for, checked, seen, other >>

\* create_progress_file(): dump the record to mesh/mvs/progress.json.
create_progress_file ==
    /\ pc = "create_progress_file"
    /\ fs' = [ fs EXCEPT !.mvs.progress = ProgressRecord(args) ]
    /\ progress_writes' = progress_writes + 1
    /\ Continues("cleanup_intermediate_files")
    /\ UNCHANGED << fs0, run, args, path, executed, invoked, printed, final_mesh,
                    final_output, cleaned, skipped, completed_for, checked, seen, other >>

\* cleanup_intermediate_files(): remove dense/ unless --keep_intermediate.
cleanup_intermediate_files ==
    /\ pc = "cleanup_intermediate_files"
    /\ IF RemovesDense(fs, args.keep_intermediate)
       THEN /\ fs' = RemoveDense(fs)
            /\ cleaned' = TRUE
       ELSE UNCHANGED << fs, cleaned >>
    /\ Continues("summary")
    /\ UNCHANGED << fs0, run, args, path, executed, invoked, printed, final_mesh,
                    final_output, progress_writes, skipped, completed_for, checked, seen, other >>

\* main(), "Summary": print the final mesh and return (status 0).
summary ==
    /\ pc = "summary"
    /\ pc' = "exited"
    /\ exit_status' = 0
    /\ printed' = printed \cup { "Final mesh: " \o final_output }
    /\ UNCHANGED << fs, fs0, run, args, path, err, executed, invoked, final_mesh,
                    final_output, progress_writes, cleaned, skipped, completed_for, checked, seen, other >>

Next ==
    \/ main_start
    \/ check_dependencies
    \/ resume_gate
    \/ validate_input_structure
    \/ step_undistort_images
    \/ step_interface_colmap
    \/ step_densify_point_cloud
    \/ step_reconstruct_mesh
    \/ step_refine_mesh
    \/ step_texture_mesh
    \/ skip_texture
    \/ create_progress_file
    \/ cleanup_intermediate_files
    \/ summary

Spec == Init /\ [][Next]_vars

TypeOK ==
    /\ run \in 0..MaxRuns
    /\ args \in Args
    /\ path \subseteq Range(required_commands)
    /\ exit_status \in { -1, 0, 1 }
    /\ progress_writes \in 0..1

\* ------------------------------------------------------------------- claims
IsPrefix(s, t) == Len(s) <= Len(t) /\ \A i \in 1..Len(s) : s[i] = t[i]

Last(s) == s[Len(s)]

CommandStages == Range(Stages) \ { "Prepare" }

\* A stage has succeeded: Prepare left the working copy (until cleanup removed
\* it); a command stage's command returned status 0 (its output was printed),
\* its output file exists and the step function did not report an error.
Succeeded(stage) ==
    IF stage = "Prepare"
    THEN \/ cleaned
         \/ /\ fs.dense.exists
            /\ fs.dense.images = "symlink"
            /\ fs.dense.sparse = PinholeOf(fs.sparse.cam)
    ELSE /\ Captured(stage) \in printed
         /\ StageErrorMessage(stage) \notin printed
         /\ Exists(fs, StageOutput(stage))

\* The run is over.
Exited == run >= 1 /\ pc = "exited"

\* C1: in every run the stages executed are a prefix of the fixed order
\* Prepare, Convert, Densify, Reconstruct, Refine, Texture (Texture left out
\* when texturing is disabled); every stage but the last one started has
\* succeeded, and each stage's command line has been run exactly once.
C1_StagesInOrder ==
    /\ IsPrefix(executed, Chain(args))
    /\ \A i \in 1..(Len(executed) - 1) : Succeeded(executed[i])
    /\ Len(invoked) = Cardinality({ i \in 1..Len(executed) : executed[i] \in CommandStages })
    /\ \A i \in 1..Len(invoked) : invoked[i] = StageCmd(executed[i + 1], args)
    /\ \A i, j \in 1..Len(invoked) : invoked[i] = invoked[j] => i = j

\* A run that went through all six stages.
C1_Witness == Exited /\ exit_status = 0 /\ executed = Stages /\ Len(invoked) = 5

\* C2: whenever a command stage has run and its output file is absent after
\* the command returned, whatever the exit code, the run has failed with a
\* stage error that names that stage, and it is the last stage executed.
C2_MissingOutputNamesStage ==
    \A i \in 1..Len(executed) :
        (executed[i] \in CommandStages /\ ~Exists(fs, StageOutput(executed[i])))
            => /\ i = Len(executed)
               /\ pc = "exited"
               /\ exit_status = 1
               /\ err.kind = "StageError"
               /\ err.stage = executed[i]

\* C3: when a stage's command returns a non-zero exit status the run fails at
\* once, without progress record or cleanup, and the failure carries the
\* stage name, the command line and the captured output.
C3_NonZeroExitReport ==
    err.kind = "CalledProcessError"
        => /\ pc = "exited"
           /\ exit_status = 1
           /\ progress_writes = 0
           /\ ~cleaned
           /\ err.stage = Last(executed)
           /\ err.cmd = StageCmd(Last(executed), args)
           /\ err.output = Captured(Last(executed))

\* C4: the resume gate comes before every check of the input and of the
\* tools: a run with skip_if_exists whose final artifact exists at its start
\* ends with status 0, without any failure, stage, progress write or cleanup.
C4_GateBeforeChecks ==
    (Exited /\ args.skip_if_exists
            /\ Exists(fs0, IF args.no_texture THEN "scene_dense_mesh_refine.ply"
                           ELSE "scene_dense_mesh_refine_texture.ply"))
        => /\ exit_status = 0
           /\ err = NoErr
           /\ executed = << >>
           /\ progress_writes = 0
           /\ ~cleaned

\* C5: after a successful run, a run on the same scene with skip_if_exists and
\* the same texture setting executes no stage, ends with status 0 and leaves
\* the scene directory as it was.
C5_Idempotent ==
    (Exited /\ args.skip_if_exists /\ args.no_texture \in completed_for)
        => /\ executed = << >>
           /\ exit_status = 0
           /\ fs = fs0

\* C6: once check_dependencies has run, with M the required commands that do
\* not resolve: if M is not empty the run has failed with a dependency error
\* listing exactly M, no stage has run and the disk is untouched; if M is empty
\* there is no dependency error.
C6_AllMissingListed ==
    (run >= 1 /\ pc # "check_dependencies")
        => LET M == Range(required_commands) \ path
           IN IF M # {}
              THEN /\ pc = "exited"
                   /\ exit_status = 1
                   /\ err.kind = "DependencyError"
                   /\ Range(err.missing) = M
                   /\ Len(err.missing) = Cardinality(M)
                   /\ executed = << >>
                   /\ fs = fs0
              ELSE err.kind # "DependencyError"

\* A dependency failure with two of the six commands missing.
C6_Witness == Exited /\ err.kind = "DependencyError" /\ Len(err.missing) = 2

\* The final artifact the texture setting calls for.
ExpectedFinal(a) ==
    IF a.no_texture THEN "scene_dense_mesh_refine.ply"
    ELSE "scene_dense_mesh_refine_texture.ply"

\* C7: with no_texture the Texture stage never runs and the final artifact,
\* both the one the resume gate tests and the one reported on success, is the
\* Refine output; without it the final artifact is the Texture output.
C7_FinalArtifact ==
    /\ args.no_texture =>
         /\ "Texture" \notin Range(executed)
         /\ \A i \in 1..Len(invoked) : invoked[i][1] # "TextureMesh"
    /\ final_mesh # "none" => final_mesh = ExpectedFinal(args)
    /\ final_output # "none" => final_output = ExpectedFinal(args)
    /\ (Exited /\ exit_status = 0 /\ ~skipped) =>
         /\ final_mesh = final_output
         /\ ("Final mesh: " \o ExpectedFinal(args)) \in printed
         /\ (~args.no_texture => Last(executed) = "Texture")

\* A successful run without texturing.
C7_Witness ==
    /\ Exited /\ exit_status = 0 /\ ~skipped /\ args.no_texture
    /\ final_output = "scene_dense_mesh_refine.ply"

\* C8: a run writes progress.json at most once, and only when every stage of
\* its chain has run and the last one has succeeded; a run that failed or was
\* skipped by the resume gate has written none.
C8_ProgressOnce ==
    /\ progress_writes <= 1
    /\ progress_writes = 1 =>
         /\ executed = Chain(args)
         /\ Succeeded(Last(executed))
         /\ err = NoErr
         /\ ~skipped
    /\ (exit_status = 1 \/ skipped) =>
         /\ progress_writes = 0
         /\ fs.mvs.progress = fs0.mvs.progress

\* A run that has written its progress record.
C8_Witness == Exited /\ progress_writes = 1 /\ fs.mvs.progress.exists

\* The run has removed dense/: it was there at the start or Prepare made it.
DenseDeleted == ~fs.dense.exists /\ (fs0.dense.exists \/ Len(executed) > 0)

\* C9: a run removes dense/ only when all its stages have finished, and a run
\* with keep_intermediate never removes it: after such a run that succeeded
\* dense/ exists.
C9_CleanupLast ==
    /\ (cleaned \/ DenseDeleted) =>
         /\ pc \in { "summary", "exited" }
         /\ executed = Chain(args)
         /\ ~args.keep_intermediate
    /\ (run >= 1 /\ args.keep_intermediate) =>
         /\ fs0.dense.exists => fs.dense.exists
         /\ (Exited /\ exit_status = 0 /\ ~skipped) => fs.dense.exists

\* A successful run that kept dense/, after a run that removed it.
C9_Witness ==
    /\ Exited /\ exit_status = 0 /\ ~skipped /\ args.keep_intermediate
    /\ fs.dense.exists /\ ~fs0.dense.exists

\* C10: images/ and sparse/ are at every point of a run what they were at its
\* start; the normalized cameras are in dense/sparse only, and they are gone
\* with dense/ while the images the link pointed to stay.
C10_InputsReadOnly ==
    /\ fs.images = fs0.images
    /\ fs.sparse = fs0.sparse
    /\ fs \in { [ s EXCEPT !.dense = fs.dense, !.mvs = fs.mvs ] : s \in Scenes }
    /\ cleaned => (~fs.dense.exists /\ fs.images.exists /\ ImageFiles(fs) # {})

\* A run that rewrote the cameras of a non-pinhole scene and removed dense/.
C10_Witness ==
    /\ Exited /\ cleaned /\ exit_status = 0
    /\ fs.sparse.cam.model = "SIMPLE_RADIAL"
    /\ fs0.dense.images = "symlink"

\* The requirements of a scene, in the order the validation is to check them.
Requirements ==
    << "images", "image files", "sparse", "cameras.bin", "images.bin", "points3D.bin" >>

\* C11: once validate_input_structure has run, it has evaluated the
\* requirements in the fixed order up to the first one the scene does not meet
\* and no further; the run has then failed with a validation error reporting
\* that requirement, with no stage or command run and the disk untouched.  A
\* scene that meets them all gives no validation error.
C11_FirstUnmetRequirement ==
    /\ err.kind = "ValidationError" => Len(checked) > 0
    /\ (run >= 1 /\ Len(checked) > 0) =>
         LET unmet == { i \in 1..Len(Requirements) : ~CheckPasses(Requirements[i], fs0) }
         IN IF unmet = {}
            THEN checked = Requirements /\ err.kind # "ValidationError"
            ELSE LET k == CHOOSE i \in unmet : \A j \in unmet : i <= j
                 IN /\ checked = SubSeq(Requirements, 1, k)
                    /\ pc = "exited"
                    /\ exit_status = 1
                    /\ err.kind = "ValidationError"
                    /\ err.message = Requirements[k]
                    /\ executed = << >>
                    /\ invoked = << >>
                    /\ fs = fs0

\* A scene without image files and without sparse/: the image check is reported.
C11_Witness ==
    /\ Exited /\ err.kind = "ValidationError" /\ err.message = "image files"
    /\ ~fs.sparse.exists /\ checked = << "images", "image files" >>

\* The failures a run can end with: of the validation, of the dependency
\* check, and of a stage (Prepare cannot load sparse/, a command returns
\* non-zero, an output file is missing).
StageFailures == { "ReconstructionError", "CalledProcessError", "StageError" }

\* C12: a run that is over has status 1 exactly when it ended in a validation,
\* dependency or stage failure, and status 0 exactly when it was cut short by
\* the resume gate or went through all the stages of its chain with success;
\* there is no third outcome.
C12_ExitStatus ==
    Exited =>
        /\ exit_status \in { 0, 1 }
        /\ exit_status # 0 <=>
             \/ err.kind \in { "ValidationError", "DependencyError" }
             \/ err.kind \in StageFailures /\ Len(executed) > 0
        /\ exit_status = 0 <=>
             \/ skipped /\ Len(executed) = 0
             \/ /\ ~skipped
                /\ executed = Chain(args)
                /\ \A i \in 1..Len(executed) : Succeeded(executed[i])
        /\ exit_status = 0 => err = NoErr

\* A run ended by a command's non-zero exit: the uncaught exception gives status 1.
C12_Witness == Exited /\ err.kind = "CalledProcessError" /\ exit_status = 1

\* ------------------------------------------------ the normalization alone
\* A run that has passed the dependency check, the resume gate and the
\* validation, on a scene with any camera of CameraInputs, about to call
\* step_undistort_images.
InitNormalize ==
    /\ fs \in { [ images |-> i, sparse |-> Sparse(TRUE, Range(required_files), TRUE, c),
                  dense |-> d, mvs |-> NoMvs ] :
                  i \in ValidImages, c \in CameraInputs, d \in InitialDense }
    /\ fs0 = fs
    /\ run = 1
    /\ args = [ no_texture |-> FALSE, skip_if_exists |-> FALSE, keep_intermediate |-> FALSE,
                max_face_area |-> DefaultMaxFaceArea, refine_scales |-> "1" ]
    /\ path = Range(required_commands)
    /\ pc = "step_undistort_images"
    /\ exit_status = -1
    /\ err = NoErr
    /\ executed = << >>
    /\ invoked = << >>
    /\ printed = {}
    /\ final_mesh = FinalMesh(args)
    /\ final_output = "none"
    /\ progress_writes = 0
    /\ cleaned = FALSE
    /\ skipped = FALSE
    /\ completed_for = {}
    /\ checked = Checks
    /\ seen = << >>
    /\ other = NoOther

SpecNormalize == InitNormalize /\ [][step_undistort_images]_vars

\* The camera step_undistort_images has written to dense/sparse.
Prepared == Len(executed) > 0 /\ executed[1] = "Prepare" /\ fs.sparse.readable /\ ~cleaned

\* C13: a camera of a model with one focal length (parameters f, cx, cy and
\* possibly distortion terms) is normalized to a PINHOLE camera of the same
\* size with fx = fy = params[0], cx = params[1], cy = params[2].
C13_SingleFocal ==
    (Prepared /\ FocalLengths(fs.sparse.cam.model) = 1) =>
        LET c == fs.sparse.cam
        IN fs.dense.sparse = Camera("PINHOLE", c.width, c.height,
                                    << c.params[1], c.params[1], c.params[2], c.params[3] >>)

\* C14: a camera of a model with two focal lengths (parameters fx, fy, cx, cy
\* and possibly distortion terms) is normalized to a PINHOLE camera of the
\* same size with its first four parameters, whatever the distortion terms
\* are; a PINHOLE camera is passed through unchanged.
C14_DualFocal ==
    (Prepared /\ FocalLengths(fs.sparse.cam.model) = 2) =>
        LET c == fs.sparse.cam
        IN /\ fs.dense.sparse = Camera("PINHOLE", c.width, c.height,
                                       << c.params[1], c.params[2], c.params[3], c.params[4] >>)
           /\ c.model = "PINHOLE" => fs.dense.sparse = c

\* The fallback intrinsics of a camera: the larger side as focal length, the
\* centre of the image as principal point.
Fallback(c) ==
    Camera("PINHOLE", c.width, c.height,
           << IF c.width >= c.height THEN c.width ELSE c.height,
              IF c.width >= c.height THEN c.width ELSE c.height,
              c.width \div 2, c.height \div 2 >>)

\* C14 as amended: a camera tagged OPENCV, OPENCV_FISHEYE or FULL_OPENCV is
\* normalized to its first four parameters whatever its distortion terms are,
\* and a PINHOLE camera is passed through; the two-focal-length models the
\* function does not list (FOV, THIN_PRISM_FISHEYE) get the fallback
\* intrinsics and a warning.
C14_ListedDualFocal ==
    Prepared =>
        LET c == fs.sparse.cam
        IN /\ c.model \in { "PINHOLE", "OPENCV", "OPENCV_FISHEYE", "FULL_OPENCV" } =>
                fs.dense.sparse = Camera("PINHOLE", c.width, c.height,
                                         << c.params[1], c.params[2], c.params[3], c.params[4] >>)
           /\ c.model = "PINHOLE" => fs.dense.sparse = c
           /\ c.model \in { "FOV", "THIN_PRISM_FISHEYE" } =>
                /\ fs.dense.sparse = Fallback(c)
                /\ UnknownModelWarning(c) \in printed

\* An OPENCV camera with distortion terms, normalized.
C14_Witness ==
    /\ Prepared
    /\ fs.sparse.cam.model = "OPENCV"
    /\ fs.sparse.cam.params = << 700, 705, 310, 245, 7, 7, 7, 7 >>
    /\ fs.dense.sparse.params = << 700, 705, 310, 245 >>

\* The tags convert_cameras_to_pinhole does not recognize.
Unrecognized(model) ==
    model \notin { "PINHOLE", "SIMPLE_PINHOLE", "SIMPLE_RADIAL", "SIMPLE_RADIAL_FISHEYE",
                   "RADIAL", "RADIAL_FISHEYE", "OPENCV", "OPENCV_FISHEYE", "FULL_OPENCV" }

\* C15: on a scene whose camera has an unrecognized tag Prepare does not fail:
\* it prints a warning, writes the fallback intrinsics (fx = fy = larger side,
\* cx = width/2, cy = height/2) and the run goes on to the Convert stage; such
\* a run fails only if one of its commands does.
C15_UnknownModelDegrades ==
    (run >= 1 /\ Len(executed) > 0 /\ fs.sparse.readable
              /\ Unrecognized(fs.sparse.cam.model)) =>
        /\ UnknownModelWarning(fs.sparse.cam) \in printed
        /\ fs.dense.exists => fs.dense.sparse = Fallback(fs.sparse.cam)
        /\ ~fs.dense.exists => cleaned
        /\ pc # "step_undistort_images"
        /\ err.kind \in { "none", "CalledProcessError", "StageError" }
        /\ err.kind # "none" => Len(executed) > 1

\* A run on a 1000x500 camera of an unrecognized model that completed and kept
\* dense/: fx = fy = 1000, cx = 500, cy = 250.
C15_Witness ==
    /\ Exited /\ exit_status = 0 /\ ~skipped
    /\ Unrecognized(fs.sparse.cam.model)
    /\ fs.sparse.cam.width = 1000 /\ fs.sparse.cam.height = 500
    /\ fs.dense.sparse.params = << 1000, 1000, 500, 250 >>
    /\ UnknownModelWarning(fs.sparse.cam) \in printed

\* Every stage of the chain has run and passed its step function's check.
AllStagesSucceeded ==
    /\ executed = Chain(args)
    /\ \A i \in 1..Len(executed) : Succeeded(executed[i])
    /\ err = NoErr

\* C16: a run that was not cut short by the resume gate and exits with status
\* 0 has executed every stage of its chain with success and every artifact the
\* chain checks is on disk; any other run that started a stage stopped at the
\* first stage that failed: the stages before it succeeded, none after it ran,
\* no progress record was written and nothing was cleaned up.
C16_NoPartialSuccess ==
    /\ (Exited /\ exit_status = 0 /\ ~skipped) =>
         /\ AllStagesSucceeded
         /\ \A stage \in Range(Chain(args)) \ { "Prepare" } : Exists(fs, StageOutput(stage))
    /\ (Exited /\ exit_status # 0 /\ Len(executed) > 0) =>
         /\ IsPrefix(executed, Chain(args))
         /\ \A i \in 1..(Len(executed) - 1) : Succeeded(executed[i])
         /\ err.kind \in StageFailures
         /\ Last(executed) = "Prepare" => err.kind = "ReconstructionError"
         /\ Last(executed) # "Prepare" =>
              \/ Captured(Last(executed)) \notin printed
              \/ ~Exists(fs, StageOutput(Last(executed)))
         /\ progress_writes = 0
         /\ ~cleaned

\* A run with texturing that succeeded: the five artifacts are there.
C16_Witness ==
    /\ Exited /\ exit_status = 0 /\ ~skipped /\ ~args.no_texture
    /\ executed = Stages
    /\ \A stage \in CommandStages : fs.mvs.art[StageOutput(stage)] = "new"

\* C17: whenever progress.json is on disk after a run, the latest run that was
\* not cut short by the resume gate went through all its stages with success
\* and the record describes that run.
C17_ProgressReliable ==
    (Exited /\ fs.mvs.progress.exists) =>
        IF ~skipped
        THEN /\ exit_status = 0
             /\ AllStagesSucceeded
             /\ fs.mvs.progress = ProgressRecord(args)
        ELSE /\ completed_for # {}
             /\ completed_for = { ~fs.mvs.progress.textured }

\* The runs under the scheduling of the script: a process that has started
\* goes on to its exit; whether the script is invoked again is up to its user.
FairSpec == Spec /\ WF_vars(Next /\ pc # "exited")

\* C18: at some point a run removes dense/ although not all of its stages have
\* succeeded.
C18_CleanupAfterPartialState == <>(cleaned /\ ~AllStagesSucceeded)

\* C18 as amended: dense/ is removed only by a run all of whose stages have
\* run and passed their checks, after the progress record is written and
\* without --keep_intermediate; a run that fails at a stage never calls the
\* cleanup, and the dense/ its Prepare made stays on disk.
C18_CleanupOnSuccessPath ==
    /\ cleaned =>
         /\ AllStagesSucceeded
         /\ progress_writes = 1
         /\ ~args.keep_intermediate
    /\ (Exited /\ exit_status = 1 /\ Len(executed) > 0) =>
         /\ ~cleaned
         /\ fs.dense.exists

\* A run that failed at a command stage and left its working copy behind.
C18_Witness ==
    /\ Exited /\ exit_status = 1 /\ ~args.keep_intermediate
    /\ Len(executed) > 1
    /\ fs.dense.exists /\ ~fs0.dense.exists

\* An extension without regard to letter case.
Lower(ext) ==
    CASE ext = ".Png" -> ".png"
      [] ext = ".JPG" -> ".jpg"
      [] OTHER        -> ext

\* C19: once the validation has tested images/ for image files, the test has
\* passed exactly when images/ holds a file whose extension is jpg, jpeg or
\* png in any letter case.
C19_CaseInsensitiveImages ==
    (run >= 1 /\ Len(checked) >= 2) =>
        ((\E n \in fs0.images.files : Lower(Suffix(n)) \in { ".jpg", ".jpeg", ".png" })
           <=> ~(err.kind = "ValidationError" /\ err.message = "image files"))

\* ------------------------------------------- two invocations on one scene
\* What an invocation keeps in its own process: everything but the disk.
Saved ==
    [ pc |-> pc, args |-> args, exit_status |-> exit_status, err |-> err,
      executed |-> executed, invoked |-> invoked, printed |-> printed,
      final_output |-> final_output, progress_writes |-> progress_writes,
      cleaned |-> cleaned, seen |-> seen ]

\* The operating system runs the other invocation for a while: nothing in the
\* script takes a lock on the scene directory or waits for another process.
Switch ==
    /\ other # NoOther
    /\ other' = Saved
    /\ pc' = other.pc
    /\ args' = other.args
    /\ exit_status' = other.exit_status
    /\ err' = other.err
    /\ executed' = other.executed
    /\ invoked' = other.invoked
    /\ printed' = other.printed
    /\ final_output' = other.final_output
    /\ progress_writes' = other.progress_writes
    /\ cleaned' = other.cleaned
    /\ seen' = other.seen
    /\ UNCHANGED << fs, fs0, run, path, final_mesh, skipped, completed_for, checked >>

\* Two invocations with texturing on one valid scene, each with or without
\* --keep_intermediate, both past the validation and about to call
\* step_undistort_images.
InitTwoRuns ==
    /\ fs \in { [ images |-> i, sparse |-> s, dense |-> NoDense, mvs |-> NoMvs ] :
                  i \in ValidImages, s \in ValidSparse }
    /\ fs0 = fs
    /\ run = 1
    /\ args \in { a \in Args : ~a.no_texture /\ ~a.skip_if_exists }
    /\ path = Range(required_commands)
    /\ pc = "step_undistort_images"
    /\ exit_status = -1
    /\ err = NoErr
    /\ executed = << >>
    /\ invoked = << >>
    /\ printed = {}
    /\ final_mesh = StageOutput("Texture")
    /\ final_output = "none"
    /\ progress_writes = 0
    /\ cleaned = FALSE
    /\ skipped = FALSE
    /\ completed_for = {}
    /\ checked = Checks
    /\ seen = << >>
    /\ other \in { [ pc |-> "step_undistort_images", args |-> a, exit_status |-> -1,
                     err |-> NoErr, executed |-> << >>, invoked |-> << >>,
                     printed |-> {}, final_output |-> "none", progress_writes |-> 0,
                     cleaned |-> FALSE, seen |-> << >> ] :
                     a \in { b \in Args : ~b.no_texture /\ ~b.skip_if_exists } }

NextTwoRuns ==
    \/ step_undistort_images
    \/ step_interface_colmap
    \/ step_densify_point_cloud
    \/ step_reconstruct_mesh
    \/ step_refine_mesh
    \/ step_texture_mesh
    \/ create_progress_file
    \/ cleanup_intermediate_files
    \/ summary
    \/ Switch

SpecTwoRuns == InitTwoRuns /\ [][NextTwoRuns]_vars

\* The working copy Prepare makes of the scene.
WorkingCopy == [ exists |-> TRUE, images |-> "symlink", other |-> FALSE,
                 sparse |-> PinholeOf(fs.sparse.cam) ]

\* C20: two runs on one scene directory are not isolated.  Each command of a
\* run is invoked, with the command line of an undisturbed run, on whatever
\* dense/ is at that moment: the working copy, or nothing; and it finds
\* nothing exactly because the other run, started without --keep_intermediate,
\* has gone through its cleanup after this run's Prepare.
C20_NotIsolated ==
    /\ Len(seen) = Len(invoked)
    /\ Len(executed) > 0 => Len(seen) = Len(executed) - 1
    /\ \A i \in 1..Len(seen) :
         /\ invoked[i] = StageCmd(executed[i + 1], args)
         /\ seen[i] \in { WorkingCopy, NoDense }
         /\ seen[i] = NoDense =>
              /\ other.cleaned
              /\ ~other.args.keep_intermediate
              /\ other.progress_writes = 1

\* A run whose InterfaceCOLMAP was invoked after the other run's cleanup had
\* removed dense/.
C20_Witness ==
    /\ Len(seen) >= 1
    /\ executed[2] = "Convert"
    /\ invoked[1][1] = "InterfaceCOLMAP"
    /\ seen[1] = NoDense
    /\ other.cleaned
    /\ ~cleaned

\* C21: a command stage that has passed its step function's check has its
\* output file written by its command in this run, not left by an earlier one.
C21_FreshArtifact ==
    \A i \in 2..Len(executed) :
        Succeeded(executed[i]) => fs.mvs.art[StageOutput(executed[i])] = "new"

\* The commands the stages of a run with arguments a invoke.
InvokedCommands(a) == { StageCmd(stage, a)[1] : stage \in Range(Chain(a)) \ { "Prepare" } }

\* C22: a run fails the dependency check only when a command that one of its
\* stages would invoke is missing.
C22_OnlyInvokedTools ==
    err.kind = "DependencyError" => Range(err.missing) \cap InvokedCommands(args) # {}

\* C22 as amended: a run fails the dependency check exactly when one of the six
\* listed commands is missing, whatever its configuration: a missing colmap
\* stops every run, and a missing TextureMesh stops a run with no_texture too,
\* before any stage.
C22_AllSixRequired ==
    (run >= 1 /\ pc # "check_dependencies") =>
        LET stopped(cmd) == /\ pc = "exited"
                            /\ exit_status = 1
                            /\ err.kind = "DependencyError"
                            /\ cmd \in Range(err.missing)
                            /\ executed = << >>
        IN /\ "colmap" \notin path => stopped("colmap")
           /\ (args.no_texture /\ "TextureMesh" \notin path) => stopped("TextureMesh")
           /\ err.kind = "DependencyError" <=> path # Range(required_commands)

\* A run without texturing stopped because TextureMesh alone is missing.
C22_Witness ==
    /\ Exited /\ args.no_texture
    /\ err.kind = "DependencyError"
    /\ err.missing = << "TextureMesh" >>

\* C23: what was under dense/ when the run started is still there: dense/
\* itself, a real dense/images directory, and the other content of dense/.
C23_DeletesOnlyOwn ==
    (run >= 1 /\ fs0.dense.exists) =>
        /\ fs.dense.exists
        /\ fs0.dense.images = "dir" => fs.dense.images = "dir"
        /\ fs0.dense.other => fs.dense.other

====
